---- MODULE Spec2Model ----
(***************************************************************************)
(* Model of addons/mtr_module/models/models.py: the MTR upsert engine      *)
(* (MtrData.upsert_from_payload), the inventory import                     *)
(* (InventoryImportWizard.action_import with its tabular readers and row   *)
(* mapper) and the joined view (MtrInventoryJoinReport.init).              *)
(*                                                                         *)
(* Text is a sequence of one-character strings, so that strip(), lower()   *)
(* and the header regex are computed and not assumed.  A Python value is a *)
(* record [t, s, n]: t is its type tag, s its text, n its number.          *)
(***************************************************************************)
EXTENDS Integers, Sequences, FiniteSets, TLC

(* ------------------------------ bounds -------------------------------- *)

\* Largest id the mtr_data sequence hands out.
MaxMtrId == 2

\* Largest id the inventory sequence hands out.
MaxInvId == 5

\* Largest reading of the clock (fields.Datetime.now(), whole seconds).
MaxTime == 1

\* Largest number of data lines in an uploaded file.
MaxLines == 3

\* Largest length of a header text handed to _normalize_header on its own.
MaxHeaderLen == 3

(* --------------------------- Python values ---------------------------- *)

None == [t |-> "none", s |-> <<>>, n |-> 0]

\* Python False, what the coercion helpers return for "absent".
PyFalse == [t |-> "false", s |-> <<>>, n |-> 0]

Str(chars) == [t |-> "str", s |-> chars, n |-> 0]

Num(k) == [t |-> "num", s |-> <<>>, n |-> k]

\* A key that the mapping does not hold.
Missing == [t |-> "missing", s |-> <<>>, n |-> 0]

\* A non-empty list of n cells of text, s the cells quoted and joined by
\* commas.
List(chars, k) == [t |-> "list", s |-> chars, n |-> k]

\* bool(value): None, False, "", 0, 0.0 and the empty list are falsy.
Truthy(v) ==
    CASE v.t = "str" -> v.s # <<>>
      [] v.t = "num" -> v.n # 0
      [] v.t = "list" -> v.n # 0
      [] v.t = "float" -> v.s \notin {<<"0", ".", "0">>, <<"-", "0", ".", "0">>}
      [] v.t \in {"date", "datetime"} -> TRUE
      [] OTHER -> FALSE

\* a or b
PyOr(a, b) == IF Truthy(a) THEN a ELSE b

\* dict.get(key) on a mapping held as a record: None when the key is missing.
Get(d, key) == IF d[key].t = "missing" THEN None ELSE d[key]

(* -------------------------------- text -------------------------------- *)

Whitespace == {" ", "\t"}

\* str.lower() of one character; it folds letters outside ASCII too.
LowerOf(c) ==
    CASE c = "É" -> "é"
      [] c = "A" -> "a"
      [] c = "B" -> "b"
      [] c = "C" -> "c"
      [] c = "D" -> "d"
      [] c = "E" -> "e"
      [] c = "F" -> "f"
      [] c = "G" -> "g"
      [] c = "H" -> "h"
      [] c = "I" -> "i"
      [] c = "J" -> "j"
      [] c = "K" -> "k"
      [] c = "L" -> "l"
      [] c = "M" -> "m"
      [] c = "N" -> "n"
      [] c = "O" -> "o"
      [] c = "P" -> "p"
      [] c = "Q" -> "q"
      [] c = "R" -> "r"
      [] c = "S" -> "s"
      [] c = "T" -> "t"
      [] c = "U" -> "u"
      [] c = "V" -> "v"
      [] c = "W" -> "w"
      [] c = "X" -> "x"
      [] c = "Y" -> "y"
      [] c = "Z" -> "z"
      [] OTHER -> c

\* The characters [a-z0-9].
AlnumLower ==
    {"a", "b", "c", "d", "e", "f", "g", "h", "i", "j", "k", "l",
     "m", "n", "o", "p", "q", "r", "s", "t", "u", "v", "w", "x",
     "y", "z", "0", "1", "2", "3", "4", "5", "6", "7", "8", "9"}

RECURSIVE LStrip(_, _)
LStrip(s, drop) ==
    IF s # <<>> /\ Head(s) \in drop THEN LStrip(Tail(s), drop) ELSE s

RECURSIVE RStrip(_, _)
RStrip(s, drop) ==
    IF s # <<>> /\ s[Len(s)] \in drop
    THEN RStrip(SubSeq(s, 1, Len(s) - 1), drop)
    ELSE s

\* str.strip(): leading and trailing whitespace removed.
Strip(s) == RStrip(LStrip(s, Whitespace), Whitespace)

\* str.lower()
Lower(s) == [i \in 1..Len(s) |-> LowerOf(s[i])]

\* str.endswith(suffix)
EndsWith(s, suffix) ==
    /\ Len(s) >= Len(suffix)
    /\ SubSeq(s, Len(s) - Len(suffix) + 1, Len(s)) = suffix

\* re.sub(r"[^a-z0-9]+", "_", s): every maximal run of other characters
\* becomes one underscore.
RECURSIVE SubNonAlnum(_, _)
SubNonAlnum(s, inRun) ==
    IF s = <<>> THEN <<>>
    ELSE IF Head(s) \in AlnumLower
         THEN <<Head(s)>> \o SubNonAlnum(Tail(s), FALSE)
         ELSE IF inRun
              THEN SubNonAlnum(Tail(s), TRUE)
              ELSE <<"_">> \o SubNonAlnum(Tail(s), TRUE)

\* _normalize_header without the lower().
_normalize_header_NoLower(value) ==
    LET text == IF Truthy(value) THEN value.s ELSE <<>>
        normalized == SubNonAlnum(Strip(text), FALSE)
    IN  RStrip(LStrip(normalized, {"_"}), {"_"})

\* _normalize_header(value), value a str or None; the result is text.
_normalize_header(value) ==
    LET text == IF Truthy(value) THEN value.s ELSE <<>>
        normalized == SubNonAlnum(Lower(Strip(text)), FALSE)
    IN  RStrip(LStrip(normalized, {"_"}), {"_"})

(* ------------------------------ coercions ----------------------------- *)

\* A float, held as the text repr() gives for it: "2.5", "-0.0", "inf", "nan".
Float(chars) == [t |-> "float", s |-> chars, n |-> 0]

\* A datetime.date, held as its ISO text, and a datetime.datetime, held as
\* the text str() gives for it.
Date(chars) == [t |-> "date", s |-> chars, n |-> 0]

Datetime(chars) == [t |-> "datetime", s |-> chars, n |-> 0]

DigitText(k) ==
    CASE k = 0 -> <<"0">> [] k = 1 -> <<"1">> [] k = 2 -> <<"2">>
      [] k = 3 -> <<"3">> [] k = 4 -> <<"4">> [] k = 5 -> <<"5">>
      [] k = 6 -> <<"6">> [] k = 7 -> <<"7">> [] k = 8 -> <<"8">>
      [] OTHER -> <<"9">>

\* str(value) of a cell: text as it is, a number (0..9 here) in digits.
PyStr(v) ==
    CASE v.t \in {"str", "float", "date", "datetime"} -> v.s
      [] v.t = "num" -> DigitText(v.n)
      [] v.t = "false" -> <<"F", "a", "l", "s", "e">>
      [] OTHER -> <<"N", "o", "n", "e">>

Digits == {"0", "1", "2", "3", "4", "5", "6", "7", "8", "9"}

IsDigits(s) == \A i \in 1..Len(s) : s[i] \in Digits

\* int(s) of a text of digits.
RECURSIVE DigitsValue(_)
DigitsValue(s) ==
    IF s = <<>> THEN 0
    ELSE DigitsValue(SubSeq(s, 1, Len(s) - 1)) * 10
         + (CHOOSE k \in 0..9 : DigitText(k) = <<s[Len(s)]>>)

\* str.replace(c, "")
RECURSIVE Remove(_, _)
Remove(s, c) ==
    IF s = <<>> THEN <<>>
    ELSE IF Head(s) = c THEN Remove(Tail(s), c)
         ELSE <<Head(s)>> \o Remove(Tail(s), c)

\* str.find(c), counted from 1; 0 when c is not in s.
Find(s, c) ==
    IF \E i \in 1..Len(s) : s[i] = c
    THEN CHOOSE i \in 1..Len(s) : s[i] = c /\ \A j \in 1..(i - 1) : s[j] # c
    ELSE 0

\* str.split(sep)
RECURSIVE Split(_, _)
Split(s, sep) ==
    LET at == Find(s, sep)
    IN  IF at = 0 THEN <<s>>
        ELSE <<SubSeq(s, 1, at - 1)>> \o Split(SubSeq(s, at + 1, Len(s)), sep)

\* repr() of the float with this sign, integer digits and fraction digits.
FloatRepr(negative, int, frac) ==
    LET i == LStrip(int, {"0"})
        f == RStrip(frac, {"0"})
    IN  (IF negative THEN <<"-">> ELSE <<>>)
        \o (IF i = <<>> THEN <<"0">> ELSE i) \o <<".">>
        \o (IF f = <<>> THEN <<"0">> ELSE f)

T_inf == <<"i", "n", "f">>

T_infinity == <<"i", "n", "f", "i", "n", "i", "t", "y">>

T_nan == <<"n", "a", "n">>

\* float() of an unsigned text split at its point: digits on one side at
\* least; ok is FALSE for the ValueError.
FloatDigits(negative, int, frac) ==
    IF IsDigits(int) /\ IsDigits(frac) /\ int \o frac # <<>>
    THEN [ok |-> TRUE, v |-> Float(FloatRepr(negative, int, frac))]
    ELSE [ok |-> FALSE, v |-> PyFalse]

\* float() of an unsigned text: inf, infinity or nan in any case (low is the
\* text lower-cased), or digits around the point at place dot.
FloatUnsigned(negative, body, low, dot) ==
    IF low \in {T_inf, T_infinity}
    THEN [ok |-> TRUE, v |-> Float((IF negative THEN <<"-">> ELSE <<>>) \o T_inf)]
    ELSE IF low = T_nan
    THEN [ok |-> TRUE, v |-> Float(T_nan)]
    ELSE IF dot = 0
    THEN FloatDigits(negative, body, <<>>)
    ELSE FloatDigits(negative, SubSeq(body, 1, dot - 1), SubSeq(body, dot + 1, Len(body)))

\* float() of a text without surrounding whitespace: a sign may lead.
FloatSigned(t) ==
    IF t # <<>> /\ Head(t) \in {"+", "-"}
    THEN FloatUnsigned(Head(t) = "-", Tail(t), Lower(Tail(t)), Find(Tail(t), "."))
    ELSE FloatUnsigned(FALSE, t, Lower(t), Find(t, "."))

\* float(text): surrounding whitespace, a sign, then digits with at most
\* one point, or inf, infinity or nan in any case; ok is FALSE for the
\* ValueError.  (Exponents and digit separators are not among the texts
\* tried.)
PyFloat(text) == FloatSigned(Strip(text))

\* Lines 23-29 of _to_float: an empty cleaned text is False, and so is one
\* that float() raises ValueError for.
FloatOfCleaned(cleaned) ==
    IF cleaned = <<>> THEN PyFalse ELSE PyFloat(cleaned).v

\* _to_float(value): False for None, "" and text that is no float.
_to_float(value) ==
    IF value.t = "none" \/ (value.t = "str" /\ value.s = <<>>)
    THEN PyFalse
    ELSE IF value.t = "num" THEN Float(DigitText(value.n) \o <<".", "0">>)
    ELSE IF value.t = "false" THEN Float(<<"0", ".", "0">>)
    ELSE IF value.t = "float" THEN value
    ELSE FloatOfCleaned(Remove(Strip(PyStr(value)), ","))

\* The digits before the point of the repr of a finite float.
IntDigits(digits) == SubSeq(digits, 1, Find(digits, ".") - 1)

\* Lines 50-52 of _to_int: False stays False; int() of a float drops its
\* fraction, and raises OverflowError for an infinity and ValueError for a nan.
IntOf(number) ==
    IF number.t = "false" THEN [ok |-> TRUE, exc |-> "", v |-> PyFalse]
    ELSE IF number.s \in {T_inf, <<"-">> \o T_inf}
    THEN [ok |-> FALSE, exc |-> "OverflowError", v |-> PyFalse]
    ELSE IF number.s = T_nan
    THEN [ok |-> FALSE, exc |-> "ValueError", v |-> PyFalse]
    ELSE IF Head(number.s) = "-"
    THEN [ok |-> TRUE, exc |-> "", v |-> Num(0 - DigitsValue(IntDigits(Tail(number.s))))]
    ELSE [ok |-> TRUE, exc |-> "", v |-> Num(DigitsValue(IntDigits(number.s)))]

\* _to_int(value)
_to_int(value) == IntOf(_to_float(value))

\* What a strptime directive matches: %Y four digits, %y two digits, %m
\* 1..12 and %d 1..31 in one or two digits, %d also a space and a digit.
MatchesField(field, part) ==
    CASE field = "Y" -> Len(part) = 4 /\ IsDigits(part)
      [] field = "y" -> Len(part) = 2 /\ IsDigits(part)
      [] field = "m" -> /\ Len(part) \in {1, 2} /\ IsDigits(part)
                        /\ DigitsValue(part) \in 1..12
      [] OTHER -> \/ /\ Len(part) \in {1, 2} /\ IsDigits(part)
                     /\ DigitsValue(part) \in 1..31
                  \/ /\ Len(part) = 2 /\ part[1] = " "
                     /\ part[2] \in Digits \ {"0"}

\* The days of a month of the proleptic Gregorian calendar.
DaysInMonth(year, month) ==
    IF month \in {4, 6, 9, 11} THEN 30
    ELSE IF month # 2 THEN 31
    ELSE IF year % 4 = 0 /\ (year % 100 # 0 \/ year % 400 = 0) THEN 29
    ELSE 28

\* Two digits for a number below 100.
TwoDigits(k) == DigitText(k \div 10) \o DigitText(k % 10)

\* The date of a year, month and day, False when the month has no such day
\* or the year is 0.
DateOf(year, month, day) ==
    IF year >= 1 /\ day <= DaysInMonth(year, month)
    THEN Date(TwoDigits(year \div 100) \o TwoDigits(year % 100) \o <<"-">>
              \o TwoDigits(month) \o <<"-">> \o TwoDigits(day))
    ELSE PyFalse

\* The year of a %Y or %y directive; %y takes 69..99 as 19xx, 00..68 as 20xx.
YearOf(yearField, yy) ==
    IF yearField = "Y" THEN yy ELSE IF yy < 69 THEN 2000 + yy ELSE 1900 + yy

\* The date of the three parts of a text, False when a part does not match
\* its directive.
DateOfParts(parts, yearField, yearAt, monthAt, dayAt) ==
    IF /\ Len(parts) = 3
       /\ MatchesField(yearField, parts[yearAt])
       /\ MatchesField("m", parts[monthAt])
       /\ MatchesField("d", parts[dayAt])
    THEN DateOf(YearOf(yearField, DigitsValue(parts[yearAt])),
                DigitsValue(parts[monthAt]),
                DigitsValue(LStrip(parts[dayAt], {" "})))
    ELSE PyFalse

\* datetime.datetime.strptime(text, fmt).date() for a format of three
\* directives joined by one separator: the year directive ("Y" or "y") sits
\* at place yearAt, the month at monthAt, the day at dayAt; False for the
\* ValueError.
Strptime(text, sep, yearField, yearAt, monthAt, dayAt) ==
    DateOfParts(Split(text, sep), yearField, yearAt, monthAt, dayAt)

\* Lines 40-45 of _to_date: the date under the first of the formats
\* %Y-%m-%d, %m/%d/%Y, %m/%d/%y, %d-%m-%Y that the text matches, False when
\* it matches none.
DateOfText(text) ==
    PyOr(Strptime(text, "-", "Y", 1, 2, 3),
         PyOr(Strptime(text, "/", "Y", 3, 1, 2),
              PyOr(Strptime(text, "/", "y", 3, 1, 2),
                   Strptime(text, "-", "Y", 3, 2, 1))))

\* _to_date(value): False for None, "", False and 0 (which equals False), the
\* date of a date or datetime, and else the date its text gives.
_to_date(value) ==
    IF \/ value.t \in {"none", "false"}
       \/ value.t = "str" /\ value.s = <<>>
       \/ value.t = "num" /\ value.n = 0
       \/ value.t = "float" /\ ~Truthy(value)
    THEN PyFalse
    ELSE IF value.t = "datetime" THEN Date(SubSeq(value.s, 1, 10))
    ELSE IF value.t = "date" THEN value
    ELSE DateOfText(Strip(PyStr(value)))

\* The body of a JSON string: a quote and a backslash get a backslash in
\* front.  (Control and non-ASCII characters are not among the cells tried.)
RECURSIVE JsonEscape(_)
JsonEscape(s) ==
    IF s = <<>> THEN <<>>
    ELSE (IF Head(s) \in {"\"", "\\"} THEN <<"\\", Head(s)>> ELSE <<Head(s)>>)
         \o JsonEscape(Tail(s))

JsonString(s) == <<"\"">> \o JsonEscape(s) \o <<"\"">>

\* json.dumps of one value, default=str for what JSON has no form for.  A
\* list holds its items as they are written between the brackets.
JsonValue(v) ==
    CASE v.t = "str" -> JsonString(v.s)
      [] v.t = "num" -> DigitText(v.n)
      [] v.t = "none" -> <<"n", "u", "l", "l">>
      [] v.t = "false" -> <<"f", "a", "l", "s", "e">>
      [] v.t = "list" -> <<"[">> \o v.s \o <<"]">>
      [] v.t = "float" ->
            IF v.s = T_inf THEN <<"I", "n", "f", "i", "n", "i", "t", "y">>
            ELSE IF v.s = <<"-">> \o T_inf
            THEN <<"-", "I", "n", "f", "i", "n", "i", "t", "y">>
            ELSE IF v.s = T_nan THEN <<"N", "a", "N">>
            ELSE v.s
      [] OTHER -> JsonString(PyStr(v))

\* A key of a JSON object: text as a string, None as "null".
JsonKey(k) ==
    IF k.t = "none" THEN JsonString(<<"n", "u", "l", "l">>) ELSE JsonString(PyStr(k))

RECURSIVE JsonItems(_)
JsonItems(d) ==
    IF d = <<>> THEN <<>>
    ELSE JsonKey(d[1][1]) \o <<":", " ">> \o JsonValue(d[1][2])
         \o (IF Len(d) = 1 THEN <<>> ELSE <<",", " ">> \o JsonItems(Tail(d)))

\* json.dumps(row, default=str) of a mapping held as its items in order.
JsonDumps(d) == <<"{">> \o JsonItems(d) \o <<"}">>

(* ------------------------------- state -------------------------------- *)

VARIABLES
    mtr_data,     \* table mtr_data: the set of MtrData records
    mtr_seq,      \* next id of table mtr_data
    inventory,    \* table inventory: the set of InventoryRecord records
    inv_seq,      \* next id of table inventory
    now,          \* the clock read by fields.Datetime.now()
    call,         \* the last invocation: the operation and its arguments
    result,       \* what that invocation returned or raised
    before,       \* history: the row the last upsert found, before its write
    last_upsert,  \* history: heat number -> id written by the latest upsert
    txn,          \* the upserts in flight, when calls interleave
    probe         \* the arguments and results of a helper called on its own

vars ==
    <<mtr_data, mtr_seq, inventory, inv_seq, now, call, result, before,
      last_upsert, txn, probe>>

(* ------------------------ MtrData.upsert_from_payload ----------------- *)

\* The fields of an mtr_data row that the model carries.
MtrFields ==
    {"id", "heat_number", "batch_number", "grade", "c_element", "uploaded_at"}

NoDict ==
    [heat_number |-> Missing, batch_number |-> Missing, grade |-> Missing,
     c_element |-> Missing, c |-> Missing]

\* A payload that holds the carbon content under its two names.
DictC(h, b, g, c_element, c) ==
    [isdict |-> TRUE,
     d |-> [heat_number |-> h, batch_number |-> b, grade |-> g,
            c_element |-> c_element, c |-> c]]

Dict(h, b, g) == DictC(h, b, g, Missing, Missing)

\* Some object that is no mapping, such as a list.
NoPayload == [isdict |-> FALSE, d |-> NoDict]

\* Payloads whose two keys are non-empty text, with and without padding.
ValidPayloads ==
    {Dict(h, b, g) :
        h \in {Str(<<"H">>), Str(<<" ", "H", " ">>)},
        b \in {Str(<<"B">>), Str(<<"C", " ">>)},
        g \in {Missing, Str(<<"A">>), Str(<<"B">>)}}
    \cup {Dict(Str(<<"K">>), Str(<<"B">>), g) : g \in {Missing, Str(<<"A">>)}}

\* Payloads with a key that is missing, null, blank, or no text at all.
InvalidPayloads ==
    {Dict(h, Str(<<"B">>), Missing) : h \in {Missing, None, Str(<<" ">>), Num(7), Num(0)}}
    \cup {Dict(Str(<<"H">>), b, Str(<<"A">>)) : b \in {Missing, Str(<<>>), Num(7)}}
    \cup {Dict(Num(7), Missing, Missing), Dict(Missing, Num(7), Missing), NoPayload}

Payloads == ValidPayloads \cup InvalidPayloads

\* StripKey without the strip(): the key is used as it was supplied.
StripKey_Unstripped(d, key) ==
    LET v == PyOr(Get(d, key), Str(<<>>))
    IN  IF v.t = "str" THEN [ok |-> TRUE, s |-> v.s]
                       ELSE [ok |-> FALSE, s |-> <<>>]

\* (payload.get(key) or "").strip(); a truthy value that is no str has no
\* strip method, and the call raises AttributeError.
StripKey(d, key) ==
    LET v == PyOr(Get(d, key), Str(<<>>))
    IN  IF v.t = "str" THEN [ok |-> TRUE, s |-> Strip(v.s)]
                       ELSE [ok |-> FALSE, s |-> <<>>]

\* The values dictionary built from the payload and the clock.
Values(d, heat_number, batch_number, time) ==
    [heat_number |-> heat_number,
     batch_number |-> batch_number,
     grade |-> Get(d, "grade"),
     c_element |-> _to_float(PyOr(Get(d, "c_element"), Get(d, "c"))),
     uploaded_at |-> time]

\* Search with the batch column compared to the heat number.
Search_WrongColumn(table, heat_number, batch_number) ==
    LET found == {r \in table : r.heat_number = heat_number
                                /\ r.batch_number = heat_number}
    IN  {r \in found : \A o \in found : o.id <= r.id}

\* self.search([heat_number =, batch_number =], limit=1) under _order "id desc".
Search(table, heat_number, batch_number) ==
    LET found == {r \in table : r.heat_number = heat_number
                                /\ r.batch_number = batch_number}
    IN  {r \in found : \A o \in found : o.id <= r.id}

\* Write as a merge: a grade whose new value is None keeps its old value.
Write_Merge(rec, values) ==
    [f \in MtrFields |->
        IF f \in DOMAIN values /\ ~(f = "grade" /\ values[f] = None)
        THEN values[f]
        ELSE rec[f]]

\* Write that leaves uploaded_at as the create set it.
Write_KeepUploadedAt(rec, values) ==
    [f \in MtrFields |->
        IF f \in DOMAIN values /\ f # "uploaded_at" THEN values[f] ELSE rec[f]]

\* existing.write(values): every field named in values is overwritten.
Write(rec, values) ==
    [f \in MtrFields |-> IF f \in DOMAIN values THEN values[f] ELSE rec[f]]

\* self.create(values): a new row under the next id of the sequence.  The
\* insert is unconditional here and the constraint is stated apart, below:
\* while it holds of every reachable table the datastore rejects no create,
\* and a create it would reject shows as a table that breaks it.
Create(id, values) ==
    [f \in MtrFields |-> IF f = "id" THEN id ELSE values[f]]

\* An insert that the datastore does not check against the constraint.
Insert_Unchecked(table, id, values) ==
    [ok |-> TRUE, table |-> table \cup {Create(id, values)}]

\* The INSERT behind self.create(values) in a datastore that other calls
\* write to as well: the index of unique(heat_number, batch_number) refuses
\* a row whose pair is stored already, and the table stays as it was.
Insert(table, id, values) ==
    IF \E r \in table : /\ r.heat_number = values.heat_number
                         /\ r.batch_number = values.batch_number
    THEN [ok |-> FALSE, table |-> table]
    ELSE [ok |-> TRUE, table |-> table \cup {Create(id, values)}]

\* The constraint unique(heat_number, batch_number), as a predicate of a table.
mtr_heat_batch_unique(table) ==
    \A r1, r2 \in table :
        (r1.heat_number = r2.heat_number /\ r1.batch_number = r2.batch_number)
            => r1 = r2

Raised(kind) == [status |-> kind, operation |-> "", id |-> 0, count |-> 0]

Returned(operation, id, count) ==
    [status |-> "ok", operation |-> operation, id |-> id, count |-> count]

\* The call as a function of the tables: the table and sequence it leaves
\* and what it returns or raises.
UpsertOutcome(table, seq, payload, time) ==
    IF ~payload.isdict
    THEN [table |-> table, seq |-> seq, result |-> Raised("UserError")]
    ELSE
    LET heat == StripKey(payload.d, "heat_number")
        batch == StripKey(payload.d, "batch_number")
    IN  IF ~heat.ok \/ ~batch.ok
        THEN [table |-> table, seq |-> seq, result |-> Raised("AttributeError")]
        ELSE IF heat.s = <<>> \/ batch.s = <<>>
        THEN [table |-> table, seq |-> seq, result |-> Raised("UserError")]
        ELSE
        LET values == Values(payload.d, heat.s, batch.s, time)
            existing == Search(table, heat.s, batch.s)
        IN  IF existing # {}
            THEN LET rec == CHOOSE r \in existing : TRUE
                 IN  [table |-> (table \ {rec}) \cup {Write(rec, values)},
                      seq |-> seq,
                      result |-> Returned("updated", rec.id, 0)]
            ELSE [table |-> table \cup {Create(seq, values)},
                  seq |-> seq + 1,
                  result |-> Returned("created", seq, 0)]

NoFile == [file_data |-> FALSE, file_name |-> None, openpyxl |-> TRUE, rows |-> <<>>]

\* The row the last upsert found, as it was before the write; id 0 when
\* it found none.
NoRecord ==
    [id |-> 0, heat_number |-> <<>>, batch_number |-> <<>>, grade |-> None,
     c_element |-> PyFalse, uploaded_at |-> 0]

upsert_from_payload(payload, dt) ==
    \E out \in {UpsertOutcome(mtr_data, mtr_seq, payload, now + dt)} :
        /\ now + dt <= MaxTime
        /\ out.seq <= MaxMtrId + 1
        /\ now' = now + dt
        /\ mtr_data' = out.table
        /\ mtr_seq' = out.seq
        /\ call' = [op |-> "upsert", payload |-> payload, file |-> NoFile]
        /\ result' = out.result
        /\ before' =
              IF out.result.status = "ok" /\ out.result.operation = "updated"
              THEN CHOOSE r \in mtr_data : r.id = out.result.id
              ELSE NoRecord
        /\ last_upsert' =
              IF out.result.status = "ok"
              THEN LET heat == StripKey(payload.d, "heat_number").s
                   IN  [h \in DOMAIN last_upsert \cup {heat} |->
                           IF h = heat THEN out.result.id ELSE last_upsert[h]]
              ELSE last_upsert
        /\ UNCHANGED <<inventory, inv_seq, txn, probe>>

(* --------------------- InventoryImportWizard readers ------------------ *)

\* A Python dict is the sequence of its <<key, value>> items in insertion
\* order; setting a key that is present replaces its value in place.
DictPut(d, k, v) ==
    IF \E i \in 1..Len(d) : d[i][1] = k
    THEN LET i == CHOOSE j \in 1..Len(d) : d[j][1] = k
         IN  [d EXCEPT ![i] = <<k, v>>]
    ELSE Append(d, <<k, v>>)

RECURSIVE DictOf(_)
DictOf(items) ==
    IF items = <<>> THEN <<>>
    ELSE LET last == items[Len(items)]
         IN  DictPut(DictOf(SubSeq(items, 1, Len(items) - 1)), last[1], last[2])

\* d.get(k)
DictGet(d, k) ==
    IF \E i \in 1..Len(d) : d[i][1] = k
    THEN d[CHOOSE i \in 1..Len(d) : d[i][1] = k][2]
    ELSE None

\* any(values)
PyAny(values) == \E i \in 1..Len(values) : Truthy(values[i])

DictValues(d) == [i \in 1..Len(d) |-> d[i][2]]

\* The cells of a list as json.dumps writes them between the brackets.
RECURSIVE Concat(_)
Concat(cells) ==
    IF cells = <<>> THEN <<>>
    ELSE JsonString(PyStr(Head(cells)))
         \o (IF Len(cells) = 1 THEN <<>> ELSE <<",", " ">> \o Concat(Tail(cells)))

\* One row of csv.DictReader: the cells zipped with the field names, the
\* cells beyond the last field name kept as a list under the key None, the
\* field names beyond the last cell set to None.
CsvRow(fieldnames, line) ==
    LET lf == Len(fieldnames)
        lr == Len(line)
        short == IF lf < lr THEN lf ELSE lr
        zipped == DictOf([i \in 1..short |-> <<fieldnames[i], line[i]>>])
    IN  IF lf < lr
        THEN DictPut(zipped, None, List(Concat(SubSeq(line, lf + 1, lr)), lr - lf))
        ELSE DictOf(zipped \o [i \in 1..(lf - lr) |-> <<fieldnames[lr + i], None>>])

RECURSIVE CsvRows(_, _)
CsvRows(fieldnames, lines) ==
    IF lines = <<>> THEN <<>>
    ELSE LET line == Head(lines)
             rest == CsvRows(fieldnames, Tail(lines))
         IN  IF line = <<>> THEN rest
             ELSE LET row == CsvRow(fieldnames, line)
                  IN  IF PyAny(DictValues(row)) THEN <<row>> \o rest ELSE rest

\* _read_csv: the first row holds the field names; a line without cells is
\* skipped by the reader, a row without a truthy value by the filter.
_read_csv(rows) ==
    IF rows = <<>> THEN <<>> ELSE CsvRows(Head(rows), Tail(rows))

XlsxRow(headers, line) ==
    DictOf([idx \in 1..Len(headers) |->
              <<headers[idx], IF idx <= Len(line) THEN line[idx] ELSE Str(<<>>)>>])

RECURSIVE XlsxRows(_, _)
XlsxRows(headers, lines) ==
    IF lines = <<>> THEN <<>>
    ELSE LET line == Head(lines)
             rest == XlsxRows(headers, Tail(lines))
         IN  IF ~PyAny(line) THEN rest ELSE <<XlsxRow(headers, line)>> \o rest

\* _read_xlsx: the headers are the first row's cells as stripped text, "" for
\* an empty cell; a line without a truthy cell is skipped.
_read_xlsx(rows) ==
    IF rows = <<>> THEN <<>>
    ELSE LET headers == [i \in 1..Len(Head(rows)) |->
                            IF Head(rows)[i].t = "none" THEN Str(<<>>)
                            ELSE Str(Strip(PyStr(Head(rows)[i])))]
         IN  XlsxRows(headers, Tail(rows))

DotCsv == <<".", "c", "s", "v">>

DotXlsx == <<".", "x", "l", "s", "x">>

\* _read_rows: the parser is chosen by the lower-cased file name's extension.
_read_rows(file) ==
    LET file_name == Lower(PyOr(file.file_name, Str(<<>>)).s)
    IN  IF EndsWith(file_name, DotCsv)
        THEN [ok |-> TRUE, rows |-> _read_csv(file.rows)]
        ELSE IF EndsWith(file_name, DotXlsx)
        THEN IF file.openpyxl
             THEN [ok |-> TRUE, rows |-> _read_xlsx(file.rows)]
             ELSE [ok |-> FALSE, rows |-> <<>>]
        ELSE [ok |-> FALSE, rows |-> <<>>]

\* {_normalize_header(k): v for k, v in row.items()}
Normalized(row) ==
    DictOf([i \in 1..Len(row) |-> <<Str(_normalize_header(row[i][1])), row[i][2]>>])

K_heat_no == Str(<<"h", "e", "a", "t", "_", "n", "o">>)

K_heat_number == Str(<<"h", "e", "a", "t", "_", "n", "u", "m", "b", "e", "r">>)

K_lot_no == Str(<<"l", "o", "t", "_", "n", "o">>)

K_lot_number == Str(<<"l", "o", "t", "_", "n", "u", "m", "b", "e", "r">>)

K_date == Str(<<"d", "a", "t", "e">>)

K_quantity == Str(<<"q", "u", "a", "n", "t", "i", "t", "y">>)

K_document_line_no ==
    Str(<<"d", "o", "c", "u", "m", "e", "n", "t", "_", "l", "i", "n", "e", "_", "n", "o">>)

\* _map_inventory_row: the fields of an inventory row that the model
\* carries.  document_line_no holds what _to_int gave: its value, or the
\* exception it raised, which the mapping of the row then raises.
_map_inventory_row(normalized, row, file_name) ==
    [date |-> _to_date(DictGet(normalized, K_date)),
     quantity |-> _to_float(DictGet(normalized, K_quantity)),
     lot_number |-> PyOr(DictGet(normalized, K_lot_no),
                         DictGet(normalized, K_lot_number)),
     heat_number |-> PyOr(DictGet(normalized, K_heat_no),
                          DictGet(normalized, K_heat_number)),
     document_line_no |-> _to_int(DictGet(normalized, K_document_line_no)),
     source_file |-> file_name,
     raw_row_data |-> Str(JsonDumps(row))]

\* What a fields.Char column holds for a value written to it: NULL for None
\* and False, the text of anything else.
CharColumn(v) ==
    CASE v.t \in {"none", "false", "missing"} -> None
      [] v.t = "list" -> Str(v.s)
      [] OTHER -> Str(PyStr(v))

\* Inventory.create(to_create): one row per mapping, under consecutive ids.
InventoryCreate(seq, to_create) ==
    {[id |-> seq + k - 1,
      lot_number |-> CharColumn(to_create[k].lot_number),
      heat_number |-> CharColumn(to_create[k].heat_number),
      source_file |-> CharColumn(to_create[k].source_file),
      date |-> to_create[k].date,
      quantity |-> to_create[k].quantity,
      document_line_no |-> to_create[k].document_line_no.v,
      raw_row_data |-> to_create[k].raw_row_data] : k \in 1..Len(to_create)}

\* Unlink that deletes nothing.
Unlink_Nothing(table, found) == table

\* Inventory.search([]).unlink(): the rows found are deleted.
Unlink(table, found) == table \ found

\* The first row whose mapping raised, 0 when none did.
FirstRaised(to_create) ==
    IF \A k \in 1..Len(to_create) : to_create[k].document_line_no.ok THEN 0
    ELSE CHOOSE k \in 1..Len(to_create) :
            /\ ~to_create[k].document_line_no.ok
            /\ \A j \in 1..(k - 1) : to_create[j].document_line_no.ok

\* Lines 265-283 of the call, given the mappings of the rows and the first
\* of them that raised: the table is emptied and refilled and the number of
\* mappings is reported.  A row whose mapping raises ends the call there,
\* and the transaction of the call is rolled back: the table is as it was
\* before the unlink.
Refill(table, seq, to_create, raised) ==
    IF raised # 0
    THEN [table |-> table, seq |-> seq,
          result |-> Raised(to_create[raised].document_line_no.exc)]
    ELSE [table |-> Unlink(table, table) \cup InventoryCreate(seq, to_create),
          seq |-> seq + Len(to_create),
          result |-> Returned("import", 0, Len(to_create))]

\* The mappings of the rows read, lines 268-271.
ToCreate(file_name, rows) ==
    [k \in 1..Len(rows) |->
        _map_inventory_row(Normalized(rows[k]), rows[k], file_name)]

\* Lines 265-283 of the call.
ReplaceWith(table, seq, file_name, rows) ==
    \* the mappings are built once and handed on
    LET store(to_create) == Refill(table, seq, to_create, FirstRaised(to_create))
    IN  store(ToCreate(file_name, rows))

\* ImportRead with the table emptied before the rows are looked at.
ImportRead_UnlinkFirst(table, seq, file, read) ==
    IF ~read.ok \/ read.rows = <<>>
    THEN [table |-> Unlink(table, table), seq |-> seq, result |-> Raised("UserError")]
    ELSE ReplaceWith(table, seq, file.file_name, read.rows)

\* Lines 261-263 of the call: a reader that raised, or read no row, ends the
\* call before the table is touched.
ImportRead(table, seq, file, read) ==
    IF ~read.ok \/ read.rows = <<>>
    THEN [table |-> table, seq |-> seq, result |-> Raised("UserError")]
    ELSE ReplaceWith(table, seq, file.file_name, read.rows)

\* The call as a function of the table: the table and sequence it leaves and
\* what it returns or raises.
ImportOutcome(table, seq, file) ==
    IF ~file.file_data \/ ~Truthy(file.file_name)
    THEN [table |-> table, seq |-> seq, result |-> Raised("UserError")]
    ELSE ImportRead(table, seq, file, _read_rows(file))

action_import(file) ==
    \E out \in {ImportOutcome(inventory, inv_seq, file)} :
        /\ out.seq <= MaxInvId + 1
        /\ inventory' = out.table
        /\ inv_seq' = out.seq
        /\ call' = [op |-> "import", payload |-> NoPayload, file |-> file]
        /\ result' = out.result
        /\ before' = NoRecord
        /\ UNCHANGED <<mtr_data, mtr_seq, now, last_upsert, txn, probe>>

(* -------------------- MtrInventoryJoinReport.init --------------------- *)

\* The order by id alone.
SortsBefore_IdOnly(x, m) == x.id > m.id

\* The order with uploaded_at ascending.
SortsBefore_Ascending(x, m) ==
    \/ x.uploaded_at < m.uploaded_at
    \/ x.uploaded_at = m.uploaded_at /\ x.id > m.id

\* ORDER BY m.uploaded_at DESC NULLS LAST, m.id DESC: x sorts before m.
\* (uploaded_at is set by every upsert and is never NULL here.)
SortsBefore(x, m) ==
    \/ x.uploaded_at > m.uploaded_at
    \/ x.uploaded_at = m.uploaded_at /\ x.id > m.id

\* row_number() OVER (PARTITION BY m.heat_number ORDER BY ...)
RowNumber(table, m) ==
    1 + Cardinality({x \in table : x.heat_number = m.heat_number /\ SortsBefore(x, m)})

\* WITH latest_mtr AS (SELECT m.*, row_number() ... AS rn FROM mtr_data m)
latest_mtr(table) == {[m |-> m, rn |-> RowNumber(table, m)] : m \in table}

\* The join condition without "AND m.rn = 1".
JoinOn_AnyRank(i, lm) ==
    /\ i.heat_number.t = "str"
    /\ i.heat_number.s = lm.m.heat_number

\* ON i.heat_number = m.heat_number AND m.rn = 1; NULL equals nothing.
JoinOn(i, lm) ==
    /\ i.heat_number.t = "str"
    /\ i.heat_number.s = lm.m.heat_number
    /\ lm.rn = 1

\* The select list for an inventory row i joined with MTR row m.
Matched(i, m) ==
    [id |-> i.id,
     join_status |-> "Matched",
     inv_heat_number |-> i.heat_number,
     inv_lot_number |-> i.lot_number,
     mtr_id |-> Num(m.id),
     mtr_heat_number |-> Str(m.heat_number),
     mtr_batch_number |-> Str(m.batch_number),
     mtr_grade |-> m.grade,
     mtr_uploaded_at |-> Num(m.uploaded_at)]

\* The select list for an inventory row i that the left join pads with NULLs.
Unmatched(i) ==
    [id |-> i.id,
     join_status |-> "Missing MTR",
     inv_heat_number |-> i.heat_number,
     inv_lot_number |-> i.lot_number,
     mtr_id |-> None,
     mtr_heat_number |-> None,
     mtr_batch_number |-> None,
     mtr_grade |-> None,
     mtr_uploaded_at |-> None]

\* FROM inventory i LEFT JOIN latest_mtr m ON ...: one row per matching
\* pair, and one NULL-padded row per inventory row without a match.
JoinReport(inv, table) ==
    UNION {LET on == {lm \in latest_mtr(table) : JoinOn(i, lm)}
           IN  IF on = {} THEN {Unmatched(i)} ELSE {Matched(i, lm.m) : lm \in on}
           : i \in inv}

mtr_inventory_join_report == JoinReport(inventory, mtr_data)

(* ------------------------------- inputs ------------------------------- *)

SeqsUpTo(S, n) == UNION {[1..k -> S] : k \in 0..n}

File(name, openpyxl, rows) ==
    [file_data |-> TRUE, file_name |-> name, openpyxl |-> openpyxl, rows |-> rows]

NameCsv == Str(<<"a", ".", "c", "s", "v">>)

NameXlsx == Str(<<"B", ".", "X", "L", "S", "X">>)

NameTxt == Str(<<"c", ".", "t", "x", "t">>)

\* "Heat No", "Lot No."
HeaderCsv ==
    <<Str(<<"H", "e", "a", "t", " ", "N", "o">>),
      Str(<<"L", "o", "t", " ", "N", "o", ".">>)>>

\* " heat_number ", "LOT  NO"
HeaderXlsx ==
    <<Str(<<" ", "h", "e", "a", "t", "_", "n", "u", "m", "b", "e", "r", " ">>),
      Str(<<"L", "O", "T", " ", " ", "N", "O">>)>>

RowH == <<Str(<<"H">>), Str(<<"L">>)>>

RowZ == <<Str(<<"Z">>), Str(<<"L">>)>>

\* A CSV line of empty cells.
RowBlank == <<Str(<<>>), Str(<<>>)>>

\* A sheet row of empty cells.
RowNone == <<None, None>>

\* Uploads with a supported name: a header row, then up to MaxLines lines.
ReadableFiles ==
    {File(NameCsv, TRUE, <<HeaderCsv>> \o lines) :
        lines \in SeqsUpTo({RowH, RowZ, RowBlank}, MaxLines)}
    \cup {File(NameXlsx, TRUE, <<HeaderXlsx>> \o lines) :
        lines \in SeqsUpTo({RowH, RowNone}, MaxLines)}

\* Uploads that the import refuses whatever they hold.
RefusedFiles ==
    {NoFile,
     File(None, TRUE, <<HeaderCsv, RowH>>),
     File(Str(<<>>), TRUE, <<HeaderCsv, RowH>>),
     File(NameTxt, TRUE, <<HeaderCsv, RowH>>),
     File(NameXlsx, FALSE, <<HeaderXlsx, RowH>>),
     File(NameCsv, TRUE, <<>>),
     File(NameXlsx, TRUE, <<>>)}

Files == ReadableFiles \cup RefusedFiles

\* The inputs of the specification that runs both operations.
JoinPayloads ==
    {Dict(Str(<<"H">>), b, Missing) : b \in {Str(<<"B">>), Str(<<"C">>)}}
    \cup {Dict(Str(<<"K">>), Str(<<"B">>), Missing)}

MaxJoinLines == 2

JoinFiles ==
    {File(NameCsv, TRUE, <<HeaderCsv>> \o lines) :
        lines \in SeqsUpTo({RowH, RowZ}, MaxJoinLines)}

(* --------------------------- specifications --------------------------- *)

\* No helper was called on its own.
NoProbe == [fn |-> "none", x |-> <<>>, y |-> <<>>, out |-> <<>>]

Init ==
    /\ mtr_data = {}
    /\ mtr_seq = 1
    /\ inventory = {}
    /\ inv_seq = 1
    /\ now = 0
    /\ call = [op |-> "none", payload |-> NoPayload, file |-> NoFile]
    /\ result = Raised("none")
    /\ before = NoRecord
    /\ last_upsert = <<>>
    /\ txn = <<>>
    /\ probe = NoProbe

Upsert == \E payload \in Payloads, dt \in {0, 1} : upsert_from_payload(payload, dt)

Import == \E file \in Files : action_import(file)

JoinUpsert == \E payload \in JoinPayloads, dt \in {0, 1} : upsert_from_payload(payload, dt)

JoinImport == \E file \in JoinFiles : action_import(file)

\* Upserts alone, over valid and invalid payloads.
NextUpsert == Upsert

SpecUpsert == Init /\ [][NextUpsert]_vars

\* Imports alone, over readable and refused files.
NextImport == Import

SpecImport == Init /\ [][NextImport]_vars

\* Upserts and imports in any order, for the joined view.
Next == JoinUpsert \/ JoinImport

Spec == Init /\ [][Next]_vars

(* ------------------------- claims: the upsert ------------------------- *)

\* The trimmed key of a payload whose two keys are text.
HeatOf(payload) == Strip(payload.d.heat_number.s)

BatchOf(payload) == Strip(payload.d.batch_number.s)

\* A key value that is missing, null, or text that is empty once trimmed.
MissingOrEmpty(v) ==
    \/ v.t \in {"missing", "none"}
    \/ v.t = "str" /\ Strip(v.s) = <<>>

\* A payload the upsert must accept: a mapping whose two keys are text that
\* is not empty once trimmed.
ValidPayload(payload) ==
    /\ payload.isdict
    /\ \A key \in {"heat_number", "batch_number"} :
          payload.d[key].t = "str" /\ Strip(payload.d[key].s) # <<>>

WithKey(table, heat_number, batch_number) ==
    {r \in table : r.heat_number = heat_number /\ r.batch_number = batch_number}

\* C1: after any sequence of upserts run one after another, the MTR table
\* holds at most one record for each (heat_number, batch_number) pair.
C1_OneRecordPerKey == mtr_heat_batch_unique(mtr_data)

\* C1 witness: a key was upserted again while another key is stored as well.
C1_Witness ==
    /\ Cardinality(mtr_data) = 2
    /\ result.operation = "updated"

\* C2: an upsert of a valid payload returns "created" and adds exactly one
\* record when no stored record has the payload's trimmed key, and returns
\* "updated" with the id of the stored record, the number of records
\* unchanged, when one has.
C2_CreatedOrUpdated ==
    [][(call'.op = "upsert" /\ ValidPayload(call'.payload)) =>
        LET found == WithKey(mtr_data, HeatOf(call'.payload), BatchOf(call'.payload))
        IN  /\ result'.status = "ok"
            /\ IF found = {}
               THEN /\ result'.operation = "created"
                    /\ Cardinality(mtr_data') = Cardinality(mtr_data) + 1
                    /\ mtr_data \subseteq mtr_data'
                    /\ \A r \in mtr_data : r.id # result'.id
                    /\ \E r \in mtr_data' :
                          /\ r.id = result'.id
                          /\ r.heat_number = HeatOf(call'.payload)
                          /\ r.batch_number = BatchOf(call'.payload)
               ELSE /\ result'.operation = "updated"
                    /\ \E r \in found : r.id = result'.id
                    /\ Cardinality(mtr_data') = Cardinality(mtr_data)]_vars

\* C2 witness: a padded key hit the record stored under its trimmed form,
\* next to a second record with the same heat number and another batch.
C2_Witness ==
    /\ call.op = "upsert"
    /\ call.payload.d.heat_number = Str(<<" ", "H", " ">>)
    /\ result.operation = "updated"
    /\ \E r1, r2 \in mtr_data :
          /\ r1.id = result.id
          /\ r2.id # r1.id
          /\ r2.heat_number = r1.heat_number
          /\ r2.batch_number # r1.batch_number

\* C3: an upsert that hits a stored key leaves that record holding exactly
\* the values derived from the new payload: a field the payload omits is
\* unset, not carried over.
C3_FullReplace ==
    (call.op = "upsert" /\ result.operation = "updated") =>
        \E r \in mtr_data :
            /\ r.id = result.id
            /\ r.heat_number = HeatOf(call.payload)
            /\ r.batch_number = BatchOf(call.payload)
            /\ r.grade = Get(call.payload.d, "grade")
            /\ r.uploaded_at = now

\* C3 witness: the record held a grade and the later payload omits it.
C3_Witness ==
    /\ call.op = "upsert"
    /\ result.operation = "updated"
    /\ before.grade = Str(<<"A">>)
    /\ call.payload.d.grade = Missing
    /\ \E r \in mtr_data : r.id = result.id /\ r.grade = None

\* C4: every successful upsert sets the uploaded_at of the record it wrote to
\* the time of the call; that record's uploaded_at does not decrease, and no
\* other record is changed.
C4_UploadedAtRefreshed ==
    [][(call'.op = "upsert" /\ result'.status = "ok") =>
        /\ \E r \in mtr_data' : r.id = result'.id /\ r.uploaded_at = now'
        /\ \A o \in mtr_data :
              IF o.id = result'.id
              THEN \E r \in mtr_data' :
                      r.id = o.id /\ r.uploaded_at >= o.uploaded_at
              ELSE o \in mtr_data']_vars

\* C4 witness: an update moved a record's uploaded_at forward while another
\* record kept its older one.
C4_Witness ==
    /\ result.operation = "updated"
    /\ before.id = result.id
    /\ \E r, o \in mtr_data :
          /\ r.id = result.id
          /\ r.uploaded_at > before.uploaded_at
          /\ o.id # r.id
          /\ o.uploaded_at < r.uploaded_at

\* C5: the upsert fails with a validation error (UserError) when the payload
\* is no mapping or when heat_number or batch_number is missing or empty
\* after trimming, whatever is supplied under the other key, and the table
\* is then as it was.
C5_ValidationError ==
    [][(/\ call'.op = "upsert"
        /\ \/ ~call'.payload.isdict
           \/ MissingOrEmpty(call'.payload.d.heat_number)
           \/ MissingOrEmpty(call'.payload.d.batch_number)) =>
        /\ result'.status = "UserError"
        /\ mtr_data' = mtr_data]_vars

(* ------------------------- claims: the import ------------------------- *)

\* The rows the reader yields for a file, <<>> when it raises.
ParsedRows(file) == _read_rows(file).rows

\* C6: after a successful import the inventory table holds exactly the
\* records mapped from the parsed rows of the file, one per row and in fresh
\* ids, none of the records it held before, and the reported count is the
\* number of records stored.
C6_SnapshotReplace ==
    [][(call'.op = "import" /\ result'.status = "ok") =>
        \E rows \in {ParsedRows(call'.file)} :
        \E n \in {Len(rows)} :
            /\ n > 0
            /\ result'.count = n
            /\ Cardinality(inventory') = n
            /\ inventory' \cap inventory = {}
            /\ \A o \in inventory : \A r \in inventory' : r.id # o.id
            /\ \A k \in 1..n :
                  \E r \in inventory' :
                      /\ r.id = inv_seq + k - 1
                      /\ r.heat_number = CharColumn(rows[k][1][2])
                      /\ r.lot_number = CharColumn(rows[k][2][2])
                      /\ r.source_file = call'.file.file_name]_vars

\* C6 witness: a file of three rows was imported, then a file of two, and
\* the table holds the two.
C6_Witness ==
    /\ call.op = "import"
    /\ result.status = "ok"
    /\ result.count = 2
    /\ inv_seq = 6
    /\ {r.id : r \in inventory} = {4, 5}

\* The lower-cased name ends in neither ".csv" nor ".xlsx".
UnsupportedName(file) ==
    LET file_name == Lower(PyOr(file.file_name, Str(<<>>)).s)
    IN  ~EndsWith(file_name, DotCsv) /\ ~EndsWith(file_name, DotXlsx)

\* C7: the import fails when no file is supplied, when the file name ends in
\* neither .csv nor .xlsx, or when the reader yields no data row, and the
\* inventory records are then as they were.
C7_RefusedImport ==
    [][(/\ call'.op = "import"
        /\ \/ ~call'.file.file_data
           \/ ~Truthy(call'.file.file_name)
           \/ UnsupportedName(call'.file)
           \/ ParsedRows(call'.file) = <<>>) =>
        /\ result'.status = "UserError"
        /\ inventory' = inventory
        /\ inv_seq' = inv_seq]_vars

\* C7 witness: a file with a supported name and only blank lines was refused
\* while the table held records.
C7_Witness ==
    /\ call.op = "import"
    /\ result.status = "UserError"
    /\ call.file.file_data
    /\ ~UnsupportedName(call.file)
    /\ Len(call.file.rows) > 1
    /\ inventory # {}

(* ----------------------- claims: the joined view ---------------------- *)

\* The MTR records with the heat number of inventory row i.
SameHeat(i) == {m \in mtr_data : Str(m.heat_number) = i.heat_number}

\* C8: the joined view has exactly one row per inventory record, and no
\* other row.
C8_OneRowPerInventoryRecord ==
    /\ \A i \in inventory :
          Cardinality({row \in mtr_inventory_join_report : row.id = i.id}) = 1
    /\ \A row \in mtr_inventory_join_report : \E i \in inventory : i.id = row.id

\* C8 witness: one inventory record has no MTR record for its heat number,
\* another has two.
C8_Witness ==
    \E i1, i2 \in inventory :
        /\ SameHeat(i1) = {}
        /\ Cardinality(SameHeat(i2)) = 2

\* C9: the row of an inventory record carries, with join_status "Matched",
\* the MTR record of its heat number with the greatest uploaded_at, the
\* greater id among equals, when there is one; else it has join_status
\* "Missing MTR" and no MTR attribute.
C9_LatestByUploadedAtThenId ==
    \A i \in inventory :
        \A row \in mtr_inventory_join_report :
            row.id = i.id =>
                IF SameHeat(i) = {}
                THEN row = Unmatched(i)
                ELSE \E m \in SameHeat(i) :
                        /\ \A o \in SameHeat(i) :
                              \/ o.uploaded_at < m.uploaded_at
                              \/ o.uploaded_at = m.uploaded_at /\ o.id <= m.id
                        /\ row.join_status = "Matched"
                        /\ row.mtr_id = Num(m.id)
                        /\ row.mtr_heat_number = Str(m.heat_number)
                        /\ row.mtr_batch_number = Str(m.batch_number)
                        /\ row.mtr_grade = m.grade
                        /\ row.mtr_uploaded_at = Num(m.uploaded_at)

\* C9 witness: the matched record is the later one although its id is the
\* smaller, and another inventory record is left without a match.
C9_Witness ==
    \E row, other \in mtr_inventory_join_report :
        /\ other.join_status = "Missing MTR"
        /\ row.join_status = "Matched"
        /\ \E o \in mtr_data :
              /\ Str(o.heat_number) = row.inv_heat_number
              /\ Num(o.id) # row.mtr_id
              /\ o.id > row.mtr_id.n
              /\ o.uploaded_at < row.mtr_uploaded_at.n

\* The record written by the latest upsert for the heat number of a row.
LastUpserted(row) ==
    CHOOSE m \in mtr_data : m.id = last_upsert[row.inv_heat_number.s]

\* C10 as stated: the MTR record in the row of an inventory record with heat
\* number H is the record that the latest upsert for H created or updated,
\* equal timestamps included.
C10_MostRecentUpsert ==
    \A row \in mtr_inventory_join_report :
        row.join_status = "Matched" => row.mtr_id = Num(LastUpserted(row).id)

\* C10 amended: the MTR record in the row carries the uploaded_at of the
\* record that the latest upsert for H wrote, and is that record unless a
\* record for H with a greater id carries the same uploaded_at.
C10_MostRecentUnlessTied ==
    \A row \in mtr_inventory_join_report :
        row.join_status = "Matched" =>
            LET last == LastUpserted(row)
            IN  /\ row.mtr_uploaded_at = Num(last.uploaded_at)
                /\ (\A o \in mtr_data :
                       (o.heat_number = last.heat_number /\ o.id > last.id)
                           => o.uploaded_at < last.uploaded_at)
                     => row.mtr_id = Num(last.id)

\* C10 witness: the latest upsert for H updated the record with the smaller
\* id at a later time, and the row carries that record.
C10_Witness ==
    \E row \in mtr_inventory_join_report :
        /\ row.join_status = "Matched"
        /\ row.mtr_id = Num(LastUpserted(row).id)
        /\ \E o \in mtr_data :
              /\ Str(o.heat_number) = row.inv_heat_number
              /\ o.id > row.mtr_id.n
              /\ o.uploaded_at < row.mtr_uploaded_at.n

(* ------------------ _normalize_header called on its own --------------- *)

\* The characters of the header texts tried: an ASCII letter and a letter
\* outside ASCII, each in both cases, and the separators underscore and space.
HeaderChars == {"a", "A", "é", "É", "_", " "}

HeaderTexts == SeqsUpTo(HeaderChars, MaxHeaderLen)

\* Two header texts are at hand, and nothing else has happened.
InitHeader ==
    /\ mtr_data = {}
    /\ mtr_seq = 1
    /\ inventory = {}
    /\ inv_seq = 1
    /\ now = 0
    /\ call = [op |-> "none", payload |-> NoPayload, file |-> NoFile]
    /\ result = Raised("none")
    /\ before = NoRecord
    /\ last_upsert = <<>>
    /\ txn = <<>>
    /\ probe \in [fn : {"input"}, x : HeaderTexts, y : HeaderTexts, out : {<<>>}]

\* _normalize_header applied to two header texts, and to its own result.
normalize_header_call(x, y) ==
    /\ probe.fn = "input" /\ probe.x = x /\ probe.y = y
    /\ probe' = [fn |-> "_normalize_header", x |-> x, y |-> y,
                 out |-> <<_normalize_header(Str(x)),
                           _normalize_header(Str(y)),
                           _normalize_header(Str(_normalize_header(Str(x))))>>]
    /\ UNCHANGED <<mtr_data, mtr_seq, inventory, inv_seq, now, call, result,
                   before, last_upsert, txn>>

NextHeader == \E x \in {probe.x}, y \in {probe.y} : normalize_header_call(x, y)

SpecHeader == InitHeader /\ [][NextHeader]_vars

\* The alphanumeric parts of a text, in order, letters taken without case:
\* two texts with the same parts differ only in letter case and in the runs
\* of other characters between and around the parts.
RECURSIVE PartsFrom(_, _)
PartsFrom(s, run) ==
    IF s = <<>> THEN (IF run = <<>> THEN <<>> ELSE <<run>>)
    ELSE IF LowerOf(Head(s)) \in AlnumLower \cup {"é"}
         THEN PartsFrom(Tail(s), Append(run, LowerOf(Head(s))))
         ELSE (IF run = <<>> THEN <<>> ELSE <<run>>) \o PartsFrom(Tail(s), <<>>)

Parts(s) == PartsFrom(s, <<>>)

\* C14: _normalize_header applied to its own result returns that result, and
\* two header texts that differ only in letter case or in the runs of
\* non-alphanumeric characters between and around their alphanumeric parts
\* get the same key.
C14_IdempotentAndInsensitive ==
    probe.fn = "_normalize_header" =>
        /\ probe.out[3] = probe.out[1]
        /\ Parts(probe.x) = Parts(probe.y) => probe.out[1] = probe.out[2]

\* C14 witness: two different texts of two parts each, one with an upper-case
\* letter, got one key, which is neither text.
C14_Witness ==
    /\ probe.fn = "_normalize_header"
    /\ probe.x # probe.y
    /\ Len(Parts(probe.x)) = 2
    /\ Parts(probe.x) = Parts(probe.y)
    /\ \E i \in 1..Len(probe.x) : probe.x[i] = "A"
    /\ probe.out[1] = probe.out[2]
    /\ probe.out[1] \notin {probe.x, probe.y}

(* ------------------ upsert_from_payload calls that interleave --------- *)

\* The calls that can be in flight at once.
Procs == {1, 2}

\* A call that has not begun, or has returned.
IdleTxn ==
    [pc |-> "idle", values |-> Values(NoDict, <<>>, <<>>, 0), existing |-> {},
     result |-> Raised("none")]

ConcPayloads ==
    {Dict(Str(<<"H">>), Str(<<"B">>), g) : g \in {Missing, Str(<<"A">>)}}
    \cup {Dict(Str(<<"H">>), Str(<<"C">>), Missing),
          Dict(Str(<<"H">>), Missing, Missing)}

InitConc ==
    /\ mtr_data = {}
    /\ mtr_seq = 1
    /\ inventory = {}
    /\ inv_seq = 1
    /\ now = 0
    /\ call = [op |-> "none", payload |-> NoPayload, file |-> NoFile]
    /\ result = Raised("none")
    /\ before = NoRecord
    /\ last_upsert = <<>>
    /\ txn = [p \in Procs |-> IdleTxn]
    /\ probe = NoProbe

\* The call of process p up to and including its lookup: the keys are
\* checked, the values are built with the clock's reading, and the search
\* reads the table as it is at this moment.
upsert_lookup(p, payload, dt) ==
    LET heat == StripKey(payload.d, "heat_number")
        batch == StripKey(payload.d, "batch_number")
    IN  /\ txn[p].pc = "idle"
        /\ now + dt <= MaxTime
        /\ now' = now + dt
        /\ txn' = [txn EXCEPT ![p] =
              IF ~payload.isdict THEN [IdleTxn EXCEPT !.result = Raised("UserError")]
              ELSE IF ~heat.ok \/ ~batch.ok
              THEN [IdleTxn EXCEPT !.result = Raised("AttributeError")]
              ELSE IF heat.s = <<>> \/ batch.s = <<>>
              THEN [IdleTxn EXCEPT !.result = Raised("UserError")]
              ELSE [pc |-> "looked",
                    values |-> Values(payload.d, heat.s, batch.s, now + dt),
                    existing |-> {r.id : r \in Search(mtr_data, heat.s, batch.s)},
                    result |-> Raised("none")]]
        /\ UNCHANGED <<mtr_data, mtr_seq, inventory, inv_seq, call, result,
                       before, last_upsert, probe>>

\* The rest of the call of process p: the write to the row its lookup
\* found, or the create, which takes the next id of the sequence whether
\* or not the datastore accepts the row.
upsert_store(p) ==
    /\ txn[p].pc = "looked"
    /\ IF txn[p].existing # {}
       THEN \E rec \in {r \in mtr_data : r.id \in txn[p].existing} :
               /\ mtr_data' = (mtr_data \ {rec}) \cup {Write(rec, txn[p].values)}
               /\ mtr_seq' = mtr_seq
               /\ txn' = [txn EXCEPT ![p] =
                     [IdleTxn EXCEPT !.result = Returned("updated", rec.id, 0)]]
       ELSE \E out \in {Insert(mtr_data, mtr_seq, txn[p].values)} :
               /\ mtr_seq <= MaxMtrId
               /\ mtr_data' = out.table
               /\ mtr_seq' = mtr_seq + 1
               /\ txn' = [txn EXCEPT ![p] =
                     [IdleTxn EXCEPT !.result =
                         IF out.ok THEN Returned("created", mtr_seq, 0)
                                   ELSE Raised("IntegrityError")]]
    /\ UNCHANGED <<inventory, inv_seq, now, call, result, before, last_upsert,
                   probe>>

Lookup == \E p \in Procs, payload \in ConcPayloads, dt \in {0, 1} :
              upsert_lookup(p, payload, dt)

Store == \E p \in Procs : upsert_store(p)

NextConc == Lookup \/ Store

SpecConc == InitConc /\ [][NextConc]_vars

\* The key of the values a call holds is the key of a stored record.
KeyStored(values, table) ==
    \E r \in table : /\ r.heat_number = values.heat_number
                     /\ r.batch_number = values.batch_number

\* C15: when upsert_from_payload calls interleave, the table never holds two
\* records with one (heat_number, batch_number); a call whose lookup found
\* no record, and whose key another call stored before it came to write,
\* has its insert rejected: it ends in a write failure, not in "updated",
\* and it leaves the table as it was.
C15_SecondInsertRejected ==
    [][/\ mtr_heat_batch_unique(mtr_data')
       /\ \A p \in Procs :
            (/\ txn[p].pc = "looked"
             /\ txn'[p].pc = "idle"
             /\ txn[p].existing = {}
             /\ KeyStored(txn[p].values, mtr_data))
            => /\ txn'[p].result = Raised("IntegrityError")
               /\ mtr_data' = mtr_data]_vars

\* C15 witness: both calls looked up one key before either wrote; one
\* created the record and the other was refused.
C15_Witness ==
    /\ txn[1].result.status = "ok"
    /\ txn[1].result.operation = "created"
    /\ txn[2].result.status = "IntegrityError"
    /\ Cardinality(mtr_data) = 1
    /\ mtr_seq = 3

(* --------------------- imports of files of many cells ----------------- *)

\* "Heat No", "Quantity", "Document Line No.", "Date"
HeaderCells ==
    <<Str(<<"H", "e", "a", "t", " ", "N", "o">>),
      Str(<<"Q", "u", "a", "n", "t", "i", "t", "y">>),
      Str(<<"D", "o", "c", "u", "m", "e", "n", "t", " ", "L", "i", "n", "e", " ", "N", "o", ".">>),
      Str(<<"D", "a", "t", "e">>)>>

\* A CSV line under HeaderCells of text that every field's coercion takes.
LineGood ==
    <<Str(<<"H">>), Str(<<"2", ".", "5">>), Str(<<"7">>),
      Str(<<"0", "1", "/", "3", "1", "/", "2", "0", "2", "4">>)>>

\* LineGood with one cell replaced by text that the field's coercion does
\* not take, or takes as an infinity or a nan, or by no text.
CoercionLines ==
    {LineGood,
     [LineGood EXCEPT ![2] = Str(<<"x">>)],
     [LineGood EXCEPT ![3] = Str(<<"x">>)],
     [LineGood EXCEPT ![3] = Str(<<"i", "n", "f">>)],
     [LineGood EXCEPT ![3] = Str(<<"n", "a", "n">>)],
     [LineGood EXCEPT ![3] = Str(<<>>)],
     [LineGood EXCEPT ![4] = Str(<<"x">>)]}

\* One line, or a line that every coercion takes and then one more.
CoercionFiles ==
    {File(NameCsv, TRUE, <<HeaderCells, line>>) : line \in CoercionLines}
    \cup {File(NameCsv, TRUE, <<HeaderCells, LineGood, line>>) : line \in CoercionLines}
    \cup {File(NameXlsx, TRUE,
                <<HeaderCells,
                  <<Str(<<"H">>), Num(2), Str(T_inf),
                    Datetime(<<"2", "0", "2", "4", "-", "0", "1", "-", "3", "1", " ",
                               "0", "0", ":", "0", "0", ":", "0", "0">>)>>>>),
          File(NameXlsx, TRUE,
               <<HeaderCells, <<Str(<<"H">>), Num(0), Num(7), Num(0)>>>>)}

\* "Heat No", "Quantity"
HeaderTwo == <<HeaderCells[1], HeaderCells[2]>>

\* CSV lines and sheet rows that are empty, that hold only whitespace, only
\* a zero or only False, and that hold data.
BlankishCsvLines ==
    {<<Str(<<>>), Str(<<>>)>>, <<Str(<<" ">>), Str(<<>>)>>,
     <<Str(<<"H">>), Str(<<"2">>)>>}

BlankishXlsxLines ==
    {<<None, None>>, <<Num(0), None>>, <<PyFalse, None>>,
     <<Str(<<"H">>), Num(2)>>}

\* Files of one line and of two lines.
BlankishFiles ==
    {File(NameCsv, TRUE, <<HeaderTwo, line>>) : line \in BlankishCsvLines}
    \cup {File(NameCsv, TRUE, <<HeaderTwo, line, next>>) :
            line \in BlankishCsvLines, next \in BlankishCsvLines}
    \cup {File(NameXlsx, TRUE, <<HeaderTwo, line>>) : line \in BlankishXlsxLines}
    \cup {File(NameXlsx, TRUE, <<HeaderTwo, line, next>>) :
            line \in BlankishXlsxLines, next \in BlankishXlsxLines}

\* Header rows with a column that maps to no field, with one header text
\* twice, with blank header texts, and with fewer cells than the data line.
OddHeaders ==
    {<<HeaderCells[1], Str(<<"E", "x", "t", "r", "a">>)>>,
     <<Str(<<"L", "o", "t", " ", "N", "o">>), Str(<<"L", "o", "t", " ", "N", "o">>)>>,
     <<Str(<<>>), Str(<<>>)>>,
     <<None, None>>,
     <<HeaderCells[1]>>}

OddLine == <<Str(<<"a">>), Str(<<"b">>)>>

OddHeaderFiles ==
    {File(name, TRUE, <<header, OddLine>>) :
        name \in {NameCsv, NameXlsx}, header \in OddHeaders \ {<<None, None>>}}
    \cup {File(NameXlsx, TRUE, <<<<None, None>>, OddLine>>)}

CellFiles == CoercionFiles \cup BlankishFiles \cup OddHeaderFiles

ImportCells == \E file \in CellFiles : action_import(file)

NextCells == ImportCells

SpecCells == Init /\ [][NextCells]_vars

(* ------------------- claims: the cells of an import ------------------- *)

\* The upload is there and its name is one the import reads.
Readable(file) ==
    /\ file.file_data
    /\ Truthy(file.file_name)
    /\ ~UnsupportedName(file)
    /\ file.openpyxl

\* C11: a cell that its field's coercion cannot parse (whatever it holds,
\* "inf" or "nan" in an integer column included) leaves that field absent
\* and raises nothing: an import of a readable file with a data row ends
\* well and stores every row, each coerced field absent or of its type.
C11_BadCellNeverAborts ==
    [][(/\ call'.op = "import"
        /\ Readable(call'.file)
        /\ ParsedRows(call'.file) # <<>>) =>
        /\ result'.status = "ok"
        /\ result'.count = Len(ParsedRows(call'.file))
        /\ Cardinality(inventory') = Len(ParsedRows(call'.file))
        /\ \A r \in inventory' :
              /\ r.quantity.t \in {"false", "float"}
              /\ r.document_line_no.t \in {"false", "num"}
              /\ r.date.t \in {"false", "date"}]_vars

\* A blank cell: no value, or text of nothing but whitespace.  A zero and
\* False are values.
BlankCell(v) ==
    \/ v.t = "none"
    \/ v.t = "str" /\ Strip(v.s) = <<>>

HasNonBlankCell(line) == \E i \in 1..Len(line) : ~BlankCell(line[i])

\* C12: the reader returns, in source order, one mapping for each data row
\* with a cell that is not blank, and none for a row whose cells are all
\* blank; a zero or False is not blank, whitespace is.
C12_OneMappingPerNonBlankRow ==
    (call.op = "import" /\ Readable(call.file) /\ call.file.rows # <<>>) =>
        LET kept == SelectSeq(Tail(call.file.rows), HasNonBlankCell)
            parsed == ParsedRows(call.file)
        IN  /\ Len(parsed) = Len(kept)
            /\ \A k \in 1..Len(parsed) :
                  (/\ Len(parsed[k]) = Len(kept[k])
                   /\ \A j \in 1..Len(parsed[k]) : parsed[k][j][2].t # "list")
                  => DictValues(parsed[k]) = kept[k]

\* The file with the cell at place i of data line k replaced.
WithCell(file, k, i, cell) ==
    [file EXCEPT !.rows[k + 1][i] = cell]

\* The raw_row_data that an import of the file stores for its data line k.
RawRowData(file, k) == Str(JsonDumps(ParsedRows(file)[k]))

\* C13: every column value of an imported row can be recovered from the
\* raw_row_data of its record, also under header texts that are equal or
\* blank and in a row of more cells than the header row: had any one cell
\* of the row held another value, the raw_row_data would be another.
C13_RawRowDataKeepsEveryCell ==
    (/\ call.op = "import"
     /\ result.status = "ok"
     /\ Len(ParsedRows(call.file)) = Len(call.file.rows) - 1) =>
        \A k \in 1..(Len(call.file.rows) - 1) :
        \A i \in 1..Len(call.file.rows[k + 1]) :
        \A cell \in {Str(<<"a">>), Str(<<"b">>)} \ {call.file.rows[k + 1][i]} :
        \A r \in inventory :
            r.id = inv_seq - Len(call.file.rows) + k =>
                /\ r.raw_row_data = RawRowData(call.file, k)
                /\ r.raw_row_data # RawRowData(WithCell(call.file, k, i, cell), k)

(* ------------------ fields with more than one accepted name ----------- *)

\* What a payload or a sheet holds under the first of two names: nothing,
\* null, empty text, a zero as a number, as a float and as text, a number.
FirstNameValues ==
    {Missing, None, Str(<<>>), Num(0), Float(<<"0", ".", "0">>), Str(<<"0">>), Num(3)}

AliasPayloads ==
    {DictC(Str(<<"H">>), Str(<<"B">>), Missing, c_element, c) :
        c_element \in FirstNameValues, c \in {Missing, Num(5)}}

\* "Lot No", "Lot Number", "Heat No", "Heat Number"
HeaderAlias ==
    <<Str(<<"L", "o", "t", " ", "N", "o">>),
      Str(<<"L", "o", "t", " ", "N", "u", "m", "b", "e", "r">>),
      Str(<<"H", "e", "a", "t", " ", "N", "o">>),
      Str(<<"H", "e", "a", "t", " ", "N", "u", "m", "b", "e", "r">>)>>

\* Sheets and CSV files with one data row under HeaderAlias.
AliasFiles ==
    {File(NameXlsx, TRUE,
          <<HeaderAlias, <<lot_no, Str(<<"L">>), heat_no, Str(<<"H">>)>>>>) :
        lot_no \in {None, Num(0), Str(<<"A">>)},
        heat_no \in {Num(0), Num(3)}}
    \cup {File(NameCsv, TRUE,
                <<HeaderAlias, <<lot_no, Str(<<"L">>), Str(<<>>), Str(<<"H">>)>>>>) :
        lot_no \in {Str(<<>>), Str(<<"0">>)}}

UpsertAlias == \E payload \in AliasPayloads : upsert_from_payload(payload, 0)

ImportAlias == \E file \in AliasFiles : action_import(file)

NextAlias == UpsertAlias \/ ImportAlias

SpecAlias == Init /\ [][NextAlias]_vars

\* A value that counts as empty: missing, null, or the empty text.
EmptyValue(v) ==
    \/ v.t \in {"missing", "none"}
    \/ v.t = "str" /\ v.s = <<>>

\* The first of the values that is not empty; the last of them when all are.
RECURSIVE FirstNonEmpty(_)
FirstNonEmpty(values) ==
    IF Len(values) = 1 \/ ~EmptyValue(Head(values)) THEN Head(values)
    ELSE FirstNonEmpty(Tail(values))

\* C16: a field with several accepted names takes the value of the first
\* name, in order, whose value is not empty, where only a missing, null or
\* empty-text value is empty: the carbon content of an MTR record comes from
\* c_element before c, the lot and heat number of an inventory record from
\* *_no before *_number, and a zero under the first name is used.
C16_FirstNonEmptyName ==
    [][/\ (/\ call'.op = "upsert"
           /\ result'.status = "ok"
           /\ \E key \in {"c_element", "c"} : ~EmptyValue(call'.payload.d[key]))
          => \A r \in mtr_data' :
                r.id = result'.id =>
                    r.c_element = _to_float(FirstNonEmpty(<<call'.payload.d.c_element,
                                                            call'.payload.d.c>>))
       /\ (call'.op = "import" /\ result'.status = "ok")
          => \E rows \in {ParsedRows(call'.file)} :
             \A k \in 1..Len(rows) :
             \E normalized \in {Normalized(rows[k])} :
             \A r \in inventory' :
                r.id = inv_seq + k - 1 =>
                    /\ r.lot_number =
                          CharColumn(FirstNonEmpty(<<DictGet(normalized, K_lot_no),
                                                     DictGet(normalized, K_lot_number)>>))
                    /\ r.heat_number =
                          CharColumn(FirstNonEmpty(<<DictGet(normalized, K_heat_no),
                                                     DictGet(normalized, K_heat_number)>>))]_vars

====
